---- MODULE Spec2Model ----
(***************************************************************************)
(* A model of archive.py, the Matrix room archiver: add_devices and        *)
(* add_rooms writing Room, Member, Device, Event and File rows through a   *)
(* Pony ORM db_session, run after run against a remote Matrix account.     *)
(*                                                                         *)
(* The store is modelled twice: db is what the open transaction sees       *)
(* (every flush()), committed is what commit() has made durable.  An       *)
(* exception that leaves add_devices or add_rooms rolls db back to         *)
(* committed and ends the run (the script has no handler around them).     *)
(*                                                                         *)
(* The remote side is the environment: which events a room delivers, in    *)
(* which order, which pagination request fails, what a download answers.   *)
(* It changes only between runs.                                           *)
(***************************************************************************)
EXTENDS Integers, Sequences, FiniteSets, TLC

VARIABLES
    pc,                 \* position of the script: idle, devices, room, pull, event, batch_end
    run,                \* number of runs started so far; also the clock of utcnow()
    outcome,            \* how the last finished run ended
    vis,                \* remote: per room, how many events of its universe exist
    ver,                \* remote: version of names, topics, avatars and device list
    db,                 \* the store as the open db_session sees it
    committed,          \* the store as of the last commit()
    db0,                \* the committed store when the current run started
    repeat,             \* the current run follows a completed run, remote unchanged
    stable,             \* the last run completed and the remote has not changed since
    resident,           \* per room, how many events room.events holds in this run
    ri,                 \* index in JoinedRooms of the room add_rooms is at
    gen,                \* state of the get_room_events generator of that room
    first_pull,         \* the next pull is line 250 (no commit follows it)
    last_event_ids,     \* line 236/243
    event_batch,        \* line 250/332
    idx,                \* position of the for loop of line 255 in event_batch
    stop_on_this_batch, \* line 249/261
    new_events_saved,   \* line 245/264
    report,             \* line 335: the per-room counts printed in this run
    fetched,            \* the download request of the last event step, or NoFetch
    attempted,          \* content references a download was requested for in this run
    partial,            \* the room a failed run left partly archived, the remote unchanged since
    max_filesize_env    \* line 33: MAX_FILESIZE is set in the environment of this run

vars == <<pc, run, outcome, vis, ver, db, committed, db0, repeat, stable,
          resident, ri, gen, first_pull, last_event_ids, event_batch, idx,
          stop_on_this_batch, new_events_saved, report, fetched, attempted,
          partial, max_filesize_env>>

----------------------------------------------------------------------------
(* Bounds and scaled program constants *)

\* Number of runs of the script a behaviour holds.
MaxRuns == 2

\* Largest number of events room.events holds when a run starts.
MaxResident == 2

\* Number of versions the remote names and device list go through.
MaxVer == 3

\* The 1000 of lines 250 and 332, islice(events, 0, 1000): the size of one
\* event batch, scaled down.
BatchSize == 2

\* [:1000] of the known-recent query; the same 1000 as the batch size.
KnownWindow == BatchSize

\* batch_size = 1000 of get_room_events; the same 1000 again.
PageSize == BatchSize

\* The default of line 33, MAX_FILESIZE when the environment does not set it,
\* scaled from 1099511627776.  When the environment sets it, line 33 leaves
\* the string it reads, whatever it spells.
MAX_FILESIZE == 2

Min(a, b) == IF a < b THEN a ELSE b

----------------------------------------------------------------------------
(* Configuration and the remote universe *)

\* client.get_rooms(): the rooms the account has joined, in dict order.
JoinedRooms == <<"r1", "r3", "r2">>

MATRIX_ROOM_IDS == {"r1", "r3"}

EXCLUDED_ROOM_IDS == {"r3"}

\* The events a room can ever hold, the latest arrival first; the last vis[r]
\* of them exist.  x arrives last although its origin_server_ts is the
\* lowest; the remote comes to deliver f1 twice.
Universe(r) ==
    CASE r = "r1" -> <<"x", "e4", "e3", "e2", "e1">>
      [] r = "r2" -> <<"f1", "f1">>
      [] OTHER    -> <<>>

\* event["origin_server_ts"], milliseconds since the epoch.
OriginTs(e) ==
    CASE e = "x"  -> 500
      [] e = "e1" -> 1001
      [] e = "e2" -> 1002
      [] e = "e3" -> 3000
      [] e = "e4" -> 4000
      [] OTHER    -> 7000

\* event["content"]["url"] of an m.file / m.image event, "none" otherwise.
ContentUrl(e) ==
    CASE e = "x"  -> "mxc://u2"
      [] e = "e4" -> "mxc://u1"
      [] e = "e3" -> "mxc://u2"
      [] e = "e2" -> "mxc://u1"
      [] OTHER    -> "none"

Urls == {"mxc://u1", "mxc://u2"}

\* What the media server holds for a content reference: the content-length it
\* declares and the bytes (named, not spelled out).  u2 sits on the ceiling.
RemoteFile(u) ==
    IF u = "mxc://u1" THEN [clen |-> 1, content |-> "bytes-u1"]
    ELSE [clen |-> MAX_FILESIZE, content |-> "bytes-u2"]

\* room.get_joined_members()
JoinedMembers(r) == IF r = "r1" THEN <<"@alice", "@bob">> ELSE <<"@alice">>

\* One entry of client.api.get_devices()["devices"]; last_seen_ts -1 stands
\* for None.
Dev(u, d, ts) ==
    [user_id |-> u, device_id |-> d, display_name |-> <<d, "of", u>>,
     last_seen_ts |-> ts, last_seen_ip |-> "10.0.0.1"]

\* client.api.get_devices()["devices"] at version d of the remote: one device,
\* then a second one, then a device of another user under the id D1.
DeviceList(d) ==
    CASE d = 1 -> << Dev("@u1", "D1", 1500) >>
      [] d = 2 -> << Dev("@u1", "D1", 1500), Dev("@u1", "D2", -1) >>
      [] OTHER -> << Dev("@u1", "D1", 1500), Dev("@u1", "D2", -1),
                     Dev("@u2", "D1", 2500) >>

RECURSIVE Reverse(_)
Reverse(s) == IF s = <<>> THEN <<>> ELSE Reverse(Tail(s)) \o <<Head(s)>>

\* The events of room r that exist now, the latest arrival first.
History(r) ==
    LET u == Universe(r) IN SubSeq(u, Len(u) - vis[r] + 1, Len(u))

\* What get_room_events yields for room r when room.events holds res events:
\* room.events in arrival order (as the client library appends them), then the
\* chunks of backward pagination.
Delivered(r, res) ==
    LET h == History(r) IN Reverse(SubSeq(h, 1, res)) \o SubSeq(h, res + 1, Len(h))

EventRooms == {"r1", "r2"}

----------------------------------------------------------------------------
(* The store *)

NULL == "NULL"

EmptyStore == [Room |-> {}, Member |-> {}, Device |-> {}, Event |-> {}, File |-> {}]

Abs(n) == IF n < 0 THEN 0 - n ELSE n

RECURSIVE Exp2(_)
Exp2(n) == IF n = 0 THEN 1 ELSE 2 * Exp2(n - 1)

\* The exponent of a float: the k with 2^k <= n < 2^(k+1), n >= 1.
RECURSIVE FloorLog2(_)
FloorLog2(n) == IF n < 2 THEN 0 ELSE 1 + FloorLog2(n \div 2)

\* num / den rounded to the nearest integer, ties to even: the rounding of a
\* float division and of round().
RoundHalfEven(num, den) ==
    LET q == num \div den
        r == num % den
    IN  IF 2 * r < den THEN q
        ELSE IF 2 * r > den THEN q + 1
        ELSE IF q % 2 = 0 THEN q ELSE q + 1

\* datetime.utcfromtimestamp(ts/1000) raises: the year is below 1 (ts below
\* -62135596800000) or above 9999 (ts from 253402300800000 on).
TimestampRaises(ts) ==
    LET s == ts \div 1000 IN
    s \div 100 < -621355968 \/ s \div 200 >= 1267011504

\* utcfromtimestamp(ts/1000) where the float ts/1000 no longer holds the
\* milliseconds, 2^33 seconds and more from the epoch: the quotient is rounded
\* to the 53 bits of a float, its fraction is rounded to microseconds, and
\* isoformat cuts the microseconds down to milliseconds.
FloatIso(ts) ==
    LET a    == Abs(ts)
        unit == Exp2(52 - FloorLog2(a \div 1000))
        q    == RoundHalfEven(a * unit, 1000)
        sec  == q \div unit
        us   == RoundHalfEven((q % unit) * 1000000, unit)
    IN  IF ts >= 0
        THEN IF us >= 1000000 THEN <<sec + 1, (us - 1000000) \div 1000>>
             ELSE <<sec, us \div 1000>>
        ELSE IF us > 0 THEN <<0 - sec - 1, (1000000 - us) \div 1000>>
             ELSE <<0 - sec, 0>>

\* convert_to_iso8601 and the same expression of lines 257/268, for a ts that
\* does not raise: seconds and milliseconds of the ISO string; ISO strings
\* order as these pairs do.  Less than 2^33 seconds from the epoch the float
\* arithmetic is exact to the millisecond.
convert_to_iso8601(ts) ==
    LET s == ts \div 1000 IN
    IF s \div 8 >= -1073741824 /\ s \div 8 < 1073741824
    THEN <<s, ts % 1000>>
    ELSE FloatIso(ts)

IsoLeq(a, b) == a[1] < b[1] \/ (a[1] = b[1] /\ a[2] <= b[2])


\* utcnow(): the clock ticks once per run.
Now == run

\* Device.get(user_id=..., device_id=...), lines 160-170, for one device d:
\* a row with both keys is skipped; otherwise last_seen_ts is converted, which
\* may raise, the insert is flushed, and the unique index on device_id alone
\* refuses a device_id another row holds.
DeviceRow(d) ==
    [user_id |-> d.user_id, device_id |-> d.device_id,
     display_name |-> d.display_name, last_seen_ip |-> d.last_seen_ip,
     last_seen_ts |-> IF d.last_seen_ts = -1 THEN <<-1, -1>>
                      ELSE convert_to_iso8601(d.last_seen_ts),
     retrieval_ts |-> Now]

DeviceKnown(rows, d) ==
    \E x \in rows : x.user_id = d.user_id /\ x.device_id = d.device_id

DeviceClash(rows, d) == \E x \in rows : x.device_id = d.device_id

\* The loop of add_devices from device i on: the Device rows it ends with, or
\* ok = FALSE when an insert raised.
RECURSIVE StoreDevices(_, _, _)
StoreDevices(rows, list, i) ==
    IF i > Len(list) THEN [ok |-> TRUE, rows |-> rows]
    ELSE IF DeviceKnown(rows, list[i]) THEN StoreDevices(rows, list, i + 1)
    ELSE IF list[i].last_seen_ts # -1 /\ TimestampRaises(list[i].last_seen_ts)
         THEN [ok |-> FALSE, rows |-> rows]
    ELSE IF DeviceClash(rows, list[i]) THEN [ok |-> FALSE, rows |-> rows]
    ELSE StoreDevices(rows \cup {DeviceRow(list[i])}, list, i + 1)

\* Lines 190-193: the topic of r2 cannot be retrieved (404).
RoomTopic(r) == IF r = "r2" THEN <<NULL, "", 0>> ELSE <<"json", r, ver>>

\* Lines 197-207 as an upsert: the row of a known room is written anew.
StoreRoom_Update(rows, r) ==
    {x \in rows : x.room_id # r}
        \cup {[room_id |-> r, display_name |-> <<r, ver>>,
                topic |-> RoomTopic(r), retrieval_ts |-> Now]}

\* Lines 197-207: Room.get(room_id=...) and the insert when there is none.
StoreRoom(rows, r) ==
    IF \E x \in rows : x.room_id = r THEN rows
    ELSE rows \cup {[room_id |-> r, display_name |-> <<r, ver>>,
                     topic |-> RoomTopic(r), retrieval_ts |-> Now]}

MemberRow(r, u) ==
    [room_id |-> r, user_id |-> u, display_name |-> <<u, ver>>,
     avatar_url |-> <<"avatar", u, ver>>, retrieval_ts |-> Now]

\* Lines 217-228 for one member: Member.get(room=r, user_id=...), insert if none.
StoreMember(rows, r, u) ==
    IF \E x \in rows : x.room_id = r /\ x.user_id = u THEN rows
    ELSE rows \cup {MemberRow(r, u)}

\* The loop of line 212 from member i on.
RECURSIVE StoreMembers(_, _, _, _)
StoreMembers(rows, r, list, i) ==
    IF i > Len(list) THEN rows
    ELSE StoreMembers(StoreMember(rows, r, list[i]), r, list, i + 1)

\* The known-recent query ordered by ascending origin_server_ts.
KnownRecent_Oldest(rows, r) ==
    LET mine == {x \in rows : x.room_id = r} IN
    {w \in SUBSET mine :
        /\ Cardinality(w) = Min(KnownWindow, Cardinality(mine))
        /\ \A a \in w, b \in mine \ w : IsoLeq(a.origin_server_ts, b.origin_server_ts)}

\* Lines 234-235: the answers the store may give to "the 1000 events of the room
\* with the highest origin_server_ts" (more than one when timestamps tie).
KnownRecent(rows, r) ==
    LET mine == {x \in rows : x.room_id = r} IN
    {w \in SUBSET mine :
        /\ Cardinality(w) = Min(KnownWindow, Cardinality(mine))
        /\ \A a \in w, b \in mine \ w : IsoLeq(b.origin_server_ts, a.origin_server_ts)}

\* get_room_events without lines 133-143: room.events and no pagination.
NewGen_NoPaging(r, res) ==
    [stream |-> Delivered(r, res), pos |-> 0, got |-> res, done |-> TRUE]

\* The generator of get_room_events when it is created: nothing yielded,
\* room.events at hand, no request made.
NewGen(r, res) == [stream |-> Delivered(r, res), pos |-> 0, got |-> res, done |-> FALSE]

NoGen == [stream |-> <<>>, pos |-> 0, got |-> 0, done |-> TRUE]

\* list(islice(events, 0, need)) over generator state g: the items, the state
\* the generator is left in, and the number of get_room_messages requests made.
\* A request answers the next PageSize events; an empty chunk ends the generator.
RECURSIVE Take(_, _)
Take(g, need) ==
    IF need = 0 THEN [items |-> <<>>, gen |-> g, requests |-> 0]
    ELSE IF g.pos < g.got THEN
        LET rest == Take([g EXCEPT !.pos = @ + 1], need - 1) IN
        [rest EXCEPT !.items = <<g.stream[g.pos + 1]>> \o @]
    ELSE IF g.done THEN [items |-> <<>>, gen |-> g, requests |-> 0]
    ELSE
        LET chunk == Min(PageSize, Len(g.stream) - g.got)
            rest  == Take(IF chunk = 0 THEN [g EXCEPT !.done = TRUE]
                          ELSE [g EXCEPT !.got = @ + chunk], need)
        IN  [rest EXCEPT !.requests = @ + 1]

SeqIds(s) == {s[i] : i \in 1..Len(s)}

\* Lines 252-254: incoming_event_ids.difference(last_event_ids).
Diff(batch, known) == SeqIds(batch) \ known

\* Line 260 with a break in place of the continue: nothing after the first
\* known event of a batch is archived.
IsKnown_Break(e, batch, known) == e \notin Diff(batch, known) \/ stop_on_this_batch

\* Line 260: the event is taken as already archived.
IsKnown(e, batch, known) == e \notin Diff(batch, known)

\* Lines 265-278: the Event row; url stands for content, and sender, type and
\* raw_json, which are copied and never read again, are left out.
EventRow(r, e) ==
    [event_id |-> e, room_id |-> r, url |-> ContentUrl(e),
     origin_server_ts |-> convert_to_iso8601(OriginTs(e)), retrieval_ts |-> Now]

\* Line 279: the flush of a new Event meets the unique index on event_id.
EventClash(rows, e) == \E x \in rows : x.event_id = e

\* What a download can do: raise (requests.get, a missing content-length
\* header, the read of req.content), answer 200 OK with the remote file, or
\* answer with an error status and the page that comes with it; requests.get
\* does not raise on a status, and line 301 keeps status and reason as they
\* come.
FetchOutcomes == {"exc", "200 OK", "404 Not Found"}

\* Line 297: what the answer o to a download of u declares as content-length
\* and carries as body.  The page of an error status is short.
Response(u, o) ==
    IF o = "200 OK" THEN RemoteFile(u)
    ELSE [clen |-> 1, content |-> "error-page"]

NoFetch == [url |-> "none", outcome |-> "none", clen |-> -1]

\* Line 298 with <= for <.
UnderCeiling_Inclusive(clen) == ~max_filesize_env /\ clen <= MAX_FILESIZE

\* Line 298: the size test of a download that answered passes.  With
\* MAX_FILESIZE a string from the environment the comparison of an int with it
\* raises TypeError, which line 304 catches: as when the test is false,
\* nothing is kept of the download.
UnderCeiling(clen) == ~max_filesize_env /\ clen < MAX_FILESIZE

\* Lines 289-306 without line 306, the exception raised after line 300.
FetchResult_Raised(u, o) ==
    IF o # "exc" /\ UnderCeiling(Response(u, o).clen)
    THEN [data |-> Response(u, o).content, is_cached |-> TRUE, last_fetch_status |-> o]
    ELSE [data |-> NULL, is_cached |-> (o = "exc"), last_fetch_status |-> "Fail"]

\* Lines 289-306: data, is_cached and last_fetch_status after a download of u
\* that went as o.
FetchResult(u, o) ==
    IF o # "exc" /\ UnderCeiling(Response(u, o).clen)
    THEN [data |-> Response(u, o).content, is_cached |-> TRUE, last_fetch_status |-> o]
    ELSE [data |-> NULL, is_cached |-> FALSE, last_fetch_status |-> "Fail"]

\* Lines 289-291 and 307-308: the same three locals when no download is made.
NoFetchResult == [data |-> NULL, is_cached |-> FALSE, last_fetch_status |-> "Fail"]

\* Line 295 without its second test: a row that exists is never fetched again.
NeedsFetch_Once(rows, u) == \A x \in rows : x.fetch_url_matrix # u

\* Line 295: a download is requested.
NeedsFetch(rows, u) ==
    \A x \in rows : x.fetch_url_matrix = u => x.is_cached = FALSE

\* Line 288: client.api.get_download_url(matrix_download_url).
get_download_url(u) == <<"https://host/_matrix/media/download", u>>

\* Lines 310-326: insert the File row, or update the one there is.  The
\* columns copied from the event and never read again (filename, size,
\* mime_type, is_image) are left out.
UpsertFile(rows, u, res) ==
    IF \A x \in rows : x.fetch_url_matrix # u
    THEN rows \cup {[fetch_url_matrix |-> u, fetch_url_http |-> get_download_url(u),
                     is_cached |-> res.is_cached,
                     data |-> res.data, last_fetch_status |-> res.last_fetch_status,
                     last_fetch_ts |-> Now, retrieval_ts |-> Now]}
    ELSE {IF x.fetch_url_matrix # u THEN x
          ELSE [x EXCEPT !.data = IF res.data # NULL THEN res.data ELSE @,
                         !.last_fetch_status = res.last_fetch_status,
                         !.last_fetch_ts = Now] : x \in rows}

\* Lines 282-326 for event e when its download, if one is made, goes as o.
StoreFile(rows, e, o) ==
    LET u == ContentUrl(e) IN
    IF u = "none" THEN rows
    ELSE UpsertFile(rows, u, IF NeedsFetch(rows, u) THEN FetchResult(u, o)
                             ELSE NoFetchResult)

----------------------------------------------------------------------------
(* The script *)

\* An empty store (lines 95-124); no run has started and read its environment.
Init ==
    /\ pc = "idle"
    /\ run = 0
    /\ outcome = "none"
    /\ vis = [r \in EventRooms |-> IF r = "r2" THEN 1 ELSE 0]
    /\ ver = 1
    /\ db = EmptyStore
    /\ committed = EmptyStore
    /\ db0 = EmptyStore
    /\ repeat = FALSE
    /\ stable = FALSE
    /\ resident = [r \in EventRooms |-> 0]
    /\ ri = 1
    /\ gen = NoGen
    /\ first_pull = TRUE
    /\ last_event_ids = {}
    /\ event_batch = <<>>
    /\ idx = 1
    /\ stop_on_this_batch = FALSE
    /\ new_events_saved = 0
    /\ report = <<>>
    /\ fetched = NoFetch
    /\ attempted = {}
    /\ partial = "none"
    /\ max_filesize_env = FALSE

\* The locals of the event loop, as a room starts with them.
ResetLoop ==
    /\ gen' = NoGen
    /\ first_pull' = TRUE
    /\ last_event_ids' = {}
    /\ event_batch' = <<>>
    /\ idx' = 1
    /\ stop_on_this_batch' = FALSE
    /\ new_events_saved' = 0
    /\ fetched' = NoFetch

\* The remote gains an event in room r, between two runs.
RemoteGrow(r) ==
    /\ pc = "idle"
    /\ run < MaxRuns
    /\ vis[r] < Len(Universe(r))
    /\ vis' = [vis EXCEPT ![r] = @ + 1]
    /\ stable' = FALSE
    /\ partial' = "none"
    /\ UNCHANGED <<pc, run, outcome, ver, db, committed, db0, repeat, resident, ri, gen,
                   first_pull, last_event_ids, event_batch, idx,
                   stop_on_this_batch, new_events_saved, report, fetched, attempted,
                   max_filesize_env>>

\* The remote renames rooms and members and lists another device, between two runs.
RemoteUpdate ==
    /\ pc = "idle"
    /\ run < MaxRuns
    /\ ver < MaxVer
    /\ ver' = ver + 1
    /\ stable' = FALSE
    /\ partial' = "none"
    /\ UNCHANGED <<pc, run, outcome, vis, db, committed, db0, repeat, resident, ri, gen,
                   first_pull, last_event_ids, event_batch, idx,
                   stop_on_this_batch, new_events_saved, report, fetched, attempted,
                   max_filesize_env>>

\* Lines 341-373: the script starts, logs in and syncs; client.get_rooms()
\* holds the latest events of each room in room.events.  The module globals
\* are read from the environment at every start (lines 23-33): each run finds
\* MAX_FILESIZE set or unset, whatever the runs before it found.
StartRun ==
    /\ pc = "idle"
    /\ run < MaxRuns
    /\ resident' \in {f \in [EventRooms -> 0..MaxResident] :
                        \A r \in EventRooms : f[r] <= vis[r]}
    /\ run' = run + 1
    /\ pc' = "devices"
    /\ outcome' = "running"
    /\ db0' = committed
    /\ repeat' = stable
    /\ stable' = FALSE
    /\ ri' = 1
    /\ report' = <<>>
    /\ attempted' = {}
    /\ ResetLoop
    /\ max_filesize_env' \in BOOLEAN
    /\ UNCHANGED <<vis, ver, db, committed, partial>>

\* An exception leaves add_devices or add_rooms: the db_session rolls back what
\* was not committed and the script ends with the traceback.  partial notes
\* the room when a failed pagination request ends a run that has committed
\* events of it.
Crash(kind) ==
    /\ pc' = "idle"
    /\ outcome' = kind
    /\ db' = committed
    /\ stable' = FALSE
    /\ partial' = IF kind = "pagination_error"
                     /\ {x \in committed.Event : x.room_id = JoinedRooms[ri]}
                          # {x \in db0.Event : x.room_id = JoinedRooms[ri]}
                  THEN JoinedRooms[ri] ELSE partial
    /\ ResetLoop
    /\ UNCHANGED <<run, vis, ver, committed, db0, repeat, resident, ri, report,
                   attempted, max_filesize_env>>

\* add_devices, lines 151-174.
AddDevices ==
    /\ pc = "devices"
    /\ LET res == StoreDevices(db.Device, DeviceList(ver), 1) IN
        IF res.ok
        THEN /\ db' = [db EXCEPT !.Device = res.rows]
             /\ committed' = db'
             /\ pc' = "room"
             /\ UNCHANGED <<run, outcome, vis, ver, db0, repeat, stable, resident, ri, gen,
                            first_pull, last_event_ids, event_batch, idx,
                            stop_on_this_batch, new_events_saved, report,
                            fetched, attempted, partial, max_filesize_env>>
        ELSE Crash("device_error")

\* The for loop of line 181 moves on from room ri; after the last room add_rooms
\* returns and the script logs out.
LeaveRoom ==
    /\ ri' = ri + 1
    /\ pc' = IF ri < Len(JoinedRooms) THEN "room" ELSE "idle"
    /\ outcome' = IF ri < Len(JoinedRooms) THEN outcome ELSE "ok"
    /\ stable' = (ri >= Len(JoinedRooms))
    /\ ResetLoop

\* Lines 334-335: the room's last commit and its count, then the next room.
FinishRoom ==
    /\ committed' = db'
    /\ report' = Append(report, <<JoinedRooms[ri], new_events_saved>>)
    /\ LeaveRoom

\* Lines 181-249: the exclusion test, the room's metadata, its members, the
\* generator and the known-recent set.
BeginRoom ==
    /\ pc = "room"
    /\ LET r == JoinedRooms[ri] IN
        IF r \in EXCLUDED_ROOM_IDS
        THEN /\ LeaveRoom
             /\ UNCHANGED <<run, vis, ver, db, committed, db0, repeat, resident,
                            report, attempted, partial, max_filesize_env>>
        ELSE    /\ db' = [db EXCEPT !.Room = StoreRoom(@, r),
                                    !.Member = StoreMembers(@, r, JoinedMembers(r), 1)]
                /\ \E w \in KnownRecent(db.Event, r) :
                       last_event_ids' = {x.event_id : x \in w}
                /\ gen' = NewGen(r, resident[r])
                /\ pc' = "pull"
                /\ first_pull' = TRUE
                /\ event_batch' = <<>>
                /\ idx' = 1
                /\ stop_on_this_batch' = FALSE
                /\ new_events_saved' = 0
                /\ fetched' = NoFetch
                /\ UNCHANGED <<run, outcome, vis, ver, committed, db0, repeat,
                               stable, resident, ri, report, attempted, partial, max_filesize_env>>

\* Line 250, or lines 332-333: the next batch is pulled from the generator,
\* and after line 332 the transaction is committed.  A pagination request may
\* raise.  An empty batch ends the while loop of line 251.
PullBatch ==
    /\ pc = "pull"
    /\ LET t == Take(gen, BatchSize) IN
        \E fail \in (IF t.requests > 0 THEN BOOLEAN ELSE {FALSE}) :
            IF fail THEN Crash("pagination_error")
            ELSE IF t.items = <<>>
            THEN /\ db' = db
                 /\ FinishRoom
                 /\ UNCHANGED <<run, vis, ver, db0, repeat, resident, attempted, partial, max_filesize_env>>
            ELSE /\ event_batch' = t.items
                 /\ gen' = t.gen
                 /\ idx' = 1
                 /\ pc' = "event"
                 /\ first_pull' = FALSE
                 /\ committed' = IF first_pull THEN committed ELSE db
                 /\ fetched' = NoFetch
                 /\ UNCHANGED <<run, outcome, vis, ver, db, db0, repeat, stable,
                                resident, ri,
                                last_event_ids, stop_on_this_batch,
                                new_events_saved, report, attempted, partial, max_filesize_env>>

\* Lines 255-326: one turn of the for loop, for event_batch[idx].  Line 257
\* converts the timestamp of every event, known or not, and may raise.
ProcessEvent ==
    /\ pc = "event"
    /\ idx <= Len(event_batch)
    /\ LET r == JoinedRooms[ri]
           e == event_batch[idx]
           u == ContentUrl(e)
       IN
        IF TimestampRaises(OriginTs(e)) THEN Crash("value_error")
        ELSE IF IsKnown(e, event_batch, last_event_ids)
        THEN /\ stop_on_this_batch' = TRUE
             /\ idx' = idx + 1
             /\ fetched' = NoFetch
             /\ UNCHANGED <<pc, run, outcome, vis, ver, db, committed, db0, repeat,
                            stable, resident, ri, gen, first_pull, last_event_ids,
                            event_batch, new_events_saved, report, attempted,
                            partial, max_filesize_env>>
        ELSE IF EventClash(db.Event, e) THEN Crash("integrity_error")
        ELSE \E o \in FetchOutcomes :
                /\ db' = [db EXCEPT !.Event = @ \cup {EventRow(r, e)},
                                    !.File = StoreFile(@, e, o)]
                /\ new_events_saved' = new_events_saved + 1
                /\ idx' = idx + 1
                /\ fetched' = IF u # "none" /\ NeedsFetch(db.File, u)
                              THEN [url |-> u, outcome |-> o,
                                    clen |-> IF o = "exc" THEN -1 ELSE Response(u, o).clen]
                              ELSE NoFetch
                /\ attempted' = IF u # "none" /\ NeedsFetch(db.File, u)
                                THEN attempted \cup {u} ELSE attempted
                /\ UNCHANGED <<pc, run, outcome, vis, ver, committed, db0, repeat,
                               stable, resident, ri, gen, first_pull, last_event_ids,
                               event_batch, stop_on_this_batch, report, partial, max_filesize_env>>

\* Line 329 without its break: the while loop never stops at a batch.
StopAfterBatch_Never == FALSE

\* Line 329: the test that ends the while loop after the batch.
StopAfterBatch == stop_on_this_batch

\* Lines 328-333: after the for loop, stop at a batch that held a known event,
\* otherwise go and pull the next batch.
EndBatch ==
    /\ pc = "event"
    /\ idx > Len(event_batch)
    /\ IF StopAfterBatch
       THEN /\ db' = db
            /\ FinishRoom
            /\ UNCHANGED <<run, vis, ver, db0, repeat, resident, attempted, partial, max_filesize_env>>
       ELSE /\ pc' = "pull"
            /\ fetched' = NoFetch
            /\ UNCHANGED <<run, outcome, vis, ver, db, committed, db0, repeat,
                           stable, resident, ri, gen, first_pull, last_event_ids,
                           event_batch, idx, stop_on_this_batch,
                           new_events_saved, report, attempted, partial, max_filesize_env>>

Next ==
    \/ \E r \in EventRooms : RemoteGrow(r)
    \/ RemoteUpdate
    \/ StartRun
    \/ AddDevices
    \/ BeginRoom
    \/ PullBatch
    \/ ProcessEvent
    \/ EndBatch

Spec == Init /\ [][Next]_vars

----------------------------------------------------------------------------
(* Properties *)

RoomEventIds(store, r) == {x.event_id : x \in {y \in store.Event : y.room_id = r}}

Reported(r) == \E i \in 1..Len(report) : report[i][1] = r

ReportIndex(r) == (CHOOSE i \in 1..Len(report) : report[i][1] = r)

FileOf(store, u) == {x \in store.File : x.fetch_url_matrix = u}

\* The room add_rooms is at.
Here == JoinedRooms[ri]

\* The remote is as the current run, or the last completed run, saw it.
RemoteAsSeen == pc # "idle" \/ stable

\* C1: a run that follows a completed run against an unchanged remote, and that
\* meets no failing pagination request, ends without error and leaves every
\* table as it found it.
C1_SecondRunAddsNothing ==
    (pc = "idle" /\ run >= 2 /\ repeat /\ outcome # "pagination_error")
        => (outcome = "ok" /\ committed = db0)

\* The delivered sequence d is newest first: origin_server_ts, as the store
\* keeps it, strictly falls.
NewestFirst(d) ==
    \A i, j \in 1..Len(d) :
        i < j => ~IsoLeq(convert_to_iso8601(OriginTs(d[i])),
                         convert_to_iso8601(OriginTs(d[j])))

\* The store held, when the run started, exactly the m oldest events of what
\* room r delivers.
OldestStored(r, m) ==
    LET d == Delivered(r, resident[r]) IN
    RoomEventIds(db0, r) = {d[i] : i \in (Len(d) - m + 1)..Len(d)}

\* C2: when room r delivers [e_n, ..., e_1] newest first and the store held
\* exactly {e_m, ..., e_1}, 0 < m < n, the run takes every stored event it
\* meets as known (it does not insert it again), and when it is through with
\* the room it has made n - m inserts, the store holds e_n, ..., e_1 for the
\* room, and the rows of e_m, ..., e_1 are the rows it found.
C2_FrontierCorrect ==
    \A r \in EventRooms :
        LET d == Delivered(r, resident[r]) IN
        \A m \in 1..(Len(d) - 1) :
            (RemoteAsSeen /\ run >= 1 /\ NewestFirst(d) /\ OldestStored(r, m)) =>
                /\ (pc = "event" /\ Here = r /\ idx <= Len(event_batch)
                        /\ event_batch[idx] \in RoomEventIds(db0, r))
                      => IsKnown(event_batch[idx], event_batch, last_event_ids)
                /\ Reported(r) =>
                      /\ report[ReportIndex(r)][2] = Len(d) - m
                      /\ RoomEventIds(committed, r) = SeqIds(d)
                      /\ {x \in db0.Event : x.room_id = r} \subseteq committed.Event

\* C2's case: r1 delivered four events newest first, the store held the oldest
\* one, and the run archived the other three over two batches.
C2_Witness ==
    /\ RemoteAsSeen /\ run >= 2
    /\ Len(Delivered("r1", resident["r1"])) = 4
    /\ NewestFirst(Delivered("r1", resident["r1"]))
    /\ OldestStored("r1", 1)
    /\ Reported("r1") /\ report[ReportIndex("r1")][2] = 3
    /\ RoomEventIds(committed, "r1") = {"e1", "e2", "e3", "e4"}

\* C3: at the end of the for loop over a batch marked terminal, the commit that
\* follows makes durable an Event row for every event of the batch whose id
\* is not in the known-recent set, wherever it stands in the batch.
C3_BoundaryBatchComplete ==
    [][(pc = "event" /\ idx > Len(event_batch) /\ stop_on_this_batch)
          => \A e \in SeqIds(event_batch) \ last_event_ids :
                 e \in RoomEventIds(committed', Here)]_vars

\* C3's case: a terminal batch whose first event was known and whose second
\* was not, and has been archived.
C3_Witness ==
    /\ pc = "event" /\ idx > Len(event_batch) /\ stop_on_this_batch
    /\ Len(event_batch) = 2
    /\ event_batch[1] \in last_event_ids
    /\ event_batch[2] \notin last_event_ids
    /\ event_batch[2] \in RoomEventIds(db, Here)
    /\ event_batch[2] \notin RoomEventIds(db0, Here)

\* C4: when a File row has is_cached = false and a download of its content
\* reference answers under the ceiling, the row afterwards has is_cached =
\* true and data equal to the downloaded bytes.
C4_RetrySuccessCaches ==
    [][\A x \in db.File :
          (/\ x.is_cached = FALSE
           /\ fetched'.url = x.fetch_url_matrix
           /\ fetched'.outcome = "200 OK"
           /\ UnderCeiling(fetched'.clen))
          => \E y \in db'.File :
                /\ y.fetch_url_matrix = x.fetch_url_matrix
                /\ y.is_cached = TRUE
                /\ y.data = RemoteFile(x.fetch_url_matrix).content]_vars

\* Some event the remote holds refers to content reference u.
Referenced(u) ==
    \E r \in EventRooms : \E i \in 1..Len(History(r)) : ContentUrl(History(r)[i]) = u

\* C5, as claimed: a run that completes downloads again every content
\* reference whose File row it found with is_cached = false and that an event
\* of the remote history still refers to.
C5_RetriedNextRun ==
    (pc = "idle" /\ stable) =>
        \A x \in db0.File :
            (x.is_cached = FALSE /\ Referenced(x.fetch_url_matrix))
                => x.fetch_url_matrix \in attempted

\* C5, amended: when a run archives a new event (one it does not take as
\* known) that refers to a content reference whose File row has is_cached =
\* false, a download of that attachment is requested again.
C5_RetriedByNewEvent ==
    [][(pc = "event" /\ idx <= Len(event_batch)
            /\ new_events_saved' = new_events_saved + 1)
          => LET u == ContentUrl(event_batch[idx]) IN
             (\E x \in db.File : x.fetch_url_matrix = u /\ x.is_cached = FALSE)
                => (fetched'.url = u /\ u \in attempted')]_vars

\* C5's case: a download has just been requested for a content reference whose
\* File row an earlier run left with is_cached = false.
C5_Witness ==
    /\ fetched.url # "none"
    /\ \E x \in db0.File : x.fetch_url_matrix = fetched.url /\ x.is_cached = FALSE

\* C6: for every File row of the store, is_cached is true exactly when data is
\* there and the last fetch status recorded for the row is a success.
C6_CacheFlagInvariant ==
    \A x \in committed.File \cup db.File :
        x.is_cached = (x.data # NULL /\ x.last_fetch_status = "200 OK")

\* C7: when a download answers with a declared content-length at or above
\* MAX_FILESIZE, on a first attempt or on a retry, the File row of the content
\* reference afterwards has is_cached = false and its data is what it was
\* before (nothing, when the row is new): the bytes of the answer are not
\* written.
C7_SizeCeiling ==
    [][(fetched'.outcome # "none" /\ fetched'.outcome # "exc"
            /\ fetched'.clen >= MAX_FILESIZE)
          => \A y \in FileOf(db', fetched'.url) :
                /\ y.is_cached = FALSE
                /\ \/ y.data = NULL
                   \/ \E x \in FileOf(db, fetched'.url) : x.data = y.data]_vars

\* C7's case: the download of an attachment at the ceiling has answered, on a
\* retry for a row an earlier run stored, and the row is still not cached.
C7_Witness ==
    /\ ~max_filesize_env
    /\ fetched.outcome = "200 OK"
    /\ fetched.clen >= MAX_FILESIZE
    /\ \E x \in db0.File : x.fetch_url_matrix = fetched.url
    /\ \A x \in FileOf(db, fetched.url) : x.is_cached = FALSE /\ x.data = NULL

\* C8: storing a Member or an Event whose key is already in the store never
\* makes a second row and never raises.
C8_DuplicateIsNoOp ==
    /\ outcome # "integrity_error"
    /\ \A a, b \in db.Event : a.event_id = b.event_id => a = b
    /\ \A a, b \in db.Member :
          (a.room_id = b.room_id /\ a.user_id = b.user_id) => a = b

\* C9: when a pagination request of one room fails, every later room that is
\* not excluded is still processed in that run.
C9_RoomFailureIsolated ==
    (pc = "idle" /\ outcome = "pagination_error") =>
        \A j \in (ri + 1)..Len(JoinedRooms) :
            JoinedRooms[j] \notin EXCLUDED_ROOM_IDS => Reported(JoinedRooms[j])

\* C10: when the download made for an event raises, the Event row is stored,
\* a File row for the content reference is there with is_cached = false and
\* status "Fail", and the for loop goes on with the next event, the batch
\* neither cut short nor marked terminal by it.
C10_FetchFailureContained ==
    [][(pc = "event" /\ idx <= Len(event_batch) /\ fetched'.outcome = "exc")
          => /\ pc' = "event"
             /\ outcome' = "running"
             /\ idx' = idx + 1
             /\ event_batch' = event_batch
             /\ stop_on_this_batch' = stop_on_this_batch
             /\ event_batch[idx] \in RoomEventIds(db', Here)
             /\ FileOf(db', fetched'.url) # {}
             /\ \A y \in FileOf(db', fetched'.url) :
                   y.is_cached = FALSE /\ y.last_fetch_status = "Fail"]_vars

\* C10's case: a download has raised, the event's row and the File row are
\* there, and the batch has an event left to process.
C10_Witness ==
    /\ pc = "event" /\ fetched.outcome = "exc"
    /\ idx <= Len(event_batch)
    /\ event_batch[idx - 1] \in RoomEventIds(db, Here)
    /\ \E y \in FileOf(db, fetched.url) : y.is_cached = FALSE

\* C11: when an event is archived whose content reference has a File row with
\* is_cached = true, no download is requested and the row is afterwards what
\* it was before, field for field.
C11_CachedUntouched ==
    [][(pc = "event" /\ idx <= Len(event_batch)
            /\ new_events_saved' = new_events_saved + 1)
          => \A x \in FileOf(db, ContentUrl(event_batch[idx])) :
                x.is_cached = TRUE => (fetched' = NoFetch /\ x \in db'.File)]_vars

\* C12: when the next batch of a room is requested after a processed batch,
\* the Event and File rows written so far are durable whether or not the
\* request succeeds: they are in the committed store after the step.
C12_BatchCommittedBeforePull ==
    [][(pc = "pull" /\ ~first_pull)
          => (db.Event \subseteq committed'.Event /\ db.File \subseteq committed'.File)]_vars

\* C13: whatever the store held when the run started and whatever order the
\* remote delivers in, an event whose event_id the store already held for the
\* room is taken as known when the for loop comes to it: no insert of it is
\* attempted.
C13_NoReinsertion ==
    (pc = "event" /\ idx <= Len(event_batch)
        /\ event_batch[idx] \in RoomEventIds(db0, Here))
      => IsKnown(event_batch[idx], event_batch, last_event_ids)

\* C14: at the end of the for loop over a batch, if the batch held an id of
\* the known-recent set the room is finished (its count is printed, no batch
\* is pulled), and if it held none the next step is the pull of the next
\* batch from the same generator; and the loop of every room starts with the
\* mark unset.
C14_StopRule ==
    [][/\ (pc = "event" /\ idx > Len(event_batch)) =>
            IF SeqIds(event_batch) \cap last_event_ids # {}
            THEN /\ pc' # "pull" /\ pc' # "event"
                 /\ report' = Append(report, <<Here, new_events_saved>>)
            ELSE /\ pc' = "pull" /\ gen' = gen /\ ri' = ri
                 /\ report' = report
       /\ (pc' = "pull" /\ first_pull') => stop_on_this_batch' = FALSE]_vars

\* C14's case: r1, of which the store held events, was finished at a terminal
\* batch, and the loop of r2, the room after it, is at the end of a batch that
\* held no known event, with the mark unset.
C14_Witness ==
    /\ Reported("r1") /\ RoomEventIds(db0, "r1") # {}
    /\ Here = "r2" /\ pc = "event" /\ idx > Len(event_batch)
    /\ SeqIds(event_batch) \cap last_event_ids = {}
    /\ ~stop_on_this_batch

\* C15: when a room of which the store held no event at the start of the run
\* is finished (its count is printed), the while loop has ended on an empty
\* batch with the generator exhausted, and the committed store holds exactly
\* one Event row for each event the generator delivered, room.events and all
\* the chunks of pagination, every one of them counted as new.
C15_FirstArchiveComplete ==
    [][\A r \in EventRooms :
          (RoomEventIds(db0, r) = {}
             /\ report' = Append(report, <<r, new_events_saved>>))
          => LET d == Delivered(r, resident[r]) IN
             /\ pc = "pull"
             /\ Take(gen, BatchSize).items = <<>>
             /\ Take(gen, BatchSize).gen.done
             /\ new_events_saved = Len(d)
             /\ RoomEventIds(committed', r) = SeqIds(d)
             /\ Cardinality({x \in committed'.Event : x.room_id = r}) = Len(d)]_vars

\* C15's case: r1, of which nothing was stored, has been archived whole in one
\* run: one resident event and three more that came in two chunks.
C15_Witness ==
    /\ RemoteAsSeen /\ Reported("r1")
    /\ RoomEventIds(db0, "r1") = {}
    /\ resident["r1"] = 1
    /\ report[ReportIndex("r1")][2] = 4
    /\ RoomEventIds(committed, "r1") = {"e1", "e2", "e3", "e4"}

\* C16: when a run has ended on a failed pagination request after committing
\* events of a room, and a later run completes without error with the remote
\* unchanged, the store then holds every event of that room's remote history.
C16_RestartCompletes ==
    (pc = "idle" /\ outcome = "ok" /\ partial # "none")
        => SeqIds(History(partial)) \subseteq RoomEventIds(committed, partial)

\* C17: add_devices never ends with an error; when it has run, the store holds
\* exactly one Device row for each (user_id, device_id) pair of the list it
\* was given; and the Device rows the run found are rows still, unchanged.
C17_DeviceKey ==
    /\ outcome # "device_error"
    /\ (pc # "idle" /\ pc # "devices") =>
          \A i \in 1..Len(DeviceList(ver)) :
              Cardinality({x \in committed.Device :
                              /\ x.user_id = DeviceList(ver)[i].user_id
                              /\ x.device_id = DeviceList(ver)[i].device_id}) = 1
    /\ db0.Device \subseteq committed.Device

\* C18: a Room row or a Member row that is in the committed store stays in
\* it, every field as it was, whatever the remote has become; and the store
\* never holds two Room rows of one room_id or two Member rows of one room
\* and user_id.
C18_WriteOnce ==
    [][/\ committed.Room \subseteq committed'.Room
       /\ committed.Member \subseteq committed'.Member
       /\ \A a, b \in db'.Room : a.room_id = b.room_id => a = b
       /\ \A a, b \in db'.Member :
             (a.room_id = b.room_id /\ a.user_id = b.user_id) => a = b]_vars

\* C18's case: a later run has gone through r1 after the remote changed its
\* names, and the Room row and a Member row of r1 are those of the first run.
C18_Witness ==
    /\ run >= 2 /\ ver >= 2 /\ Reported("r1")
    /\ \E x \in committed.Room :
          x.room_id = "r1" /\ x.retrieval_ts < run /\ x.display_name = <<"r1", 1>>
    /\ \E x \in committed.Member :
          /\ x.room_id = "r1" /\ x.user_id = "@bob" /\ x.retrieval_ts < run
          /\ x.display_name = <<"@bob", 1>>

\* C19: every Room, Member and Event row of the store belongs to a room that
\* is among MATRIX_ROOM_IDS and not among EXCLUDED_ROOM_IDS.
C19_RoomSelection ==
    \A x \in db.Room \cup db.Member \cup db.Event
             \cup committed.Room \cup committed.Member \cup committed.Event :
        x.room_id \in MATRIX_ROOM_IDS \ EXCLUDED_ROOM_IDS

\* The script is one sequential process: once started it takes every step it
\* can take, until add_rooms returns or an exception ends it.
LiveSpec ==
    /\ Spec
    /\ WF_vars(AddDevices)
    /\ WF_vars(BeginRoom)
    /\ WF_vars(PullBatch)
    /\ WF_vars(ProcessEvent)
    /\ WF_vars(EndBatch)

\* Every room of the account that is not excluded has had its final commit
\* and its count printed in this run.
AllRoomsReported ==
    \A i \in 1..Len(JoinedRooms) :
        JoinedRooms[i] \notin EXCLUDED_ROOM_IDS => Reported(JoinedRooms[i])

\* C20: every call of add_rooms comes to its end, and if no pagination request
\* of it failed, the event loop of every room that is not excluded has ended
\* and the room's final commit and count have been reached.
C20_Termination ==
    \A n \in 1..MaxRuns :
        (run = n /\ pc = "room" /\ ri = 1)
            ~> (run = n /\ pc = "idle"
                  /\ (outcome # "pagination_error" => AllRoomsReported))

====
